---- MODULE Spec2Model ----
(***************************************************************************)
(* A state-machine model of the AI designer application: the session       *)
(* store and send flow of App.tsx, the session list guards of              *)
(* SessionSidebar.tsx, the send button of Sidebar.tsx and the image        *)
(* request service of services/geminiService.ts.                           *)
(*                                                                         *)
(* One action models one event-loop task: a handler, the re-render it      *)
(* causes and the effects React flushes after that render.  The awaits of  *)
(* handleSend that really suspend (the file read, the network calls) end   *)
(* a task; the continuation is another action.                             *)
(***************************************************************************)
EXTENDS Integers, Sequences, FiniteSets, TLC

(* ------------------------------ bounds --------------------------------- *)
(* the clock is read up to MaxTime; the user acts MaxUserActions times *)
MaxTime == 2
MaxUserActions == 4
(* user events of a visit that starts from a store an earlier visit left *)
MaxStoreActions == 2

(* ------------------------- program constants --------------------------- *)
TitleLen == 30
PreviewLen == 200

Min(a, b) == IF a < b THEN a ELSE b

Range(seq) == {seq[i] : i \in 1..Len(seq)}

(* String.prototype.slice(0, n) *)
Slice(s, n) == SubSeq(s, 1, Min(n, Len(s)))

(* String.prototype.trim(): the string without leading and trailing
   white space. *)
IsSpace(s, i) == SubSeq(s, i, i) \in {" ", "\t", "\n"}

RECURSIVE TrimLeft(_)
TrimLeft(s) ==
  IF Len(s) > 0 /\ IsSpace(s, 1) THEN TrimLeft(SubSeq(s, 2, Len(s))) ELSE s

RECURSIVE TrimRight(_)
TrimRight(s) ==
  IF Len(s) > 0 /\ IsSpace(s, Len(s)) THEN TrimRight(SubSeq(s, 1, Len(s) - 1))
  ELSE s

Trim(s) == TrimRight(TrimLeft(s))

(* JavaScript truthiness of a string *)
Truthy(s) == s # ""

(* ------------------------------ values --------------------------------- *)
(* null / undefined for an ImageAttachment and for a File *)
NoImage == [mimeType |-> "null", data |-> "null"]
NoFile == [name |-> "null", type |-> "null", content |-> "null"]

AspectRatios == {"3:4", "16:9"}
ImageCounts == {1, 2}

LongPrompt == "a modern glass facade at night with trees"
Prompts == {"", " ", "a red chair", LongPrompt}

(* A File: content stands for the base64 text of its bytes, which is what
   FileReader.readAsDataURL puts after the "data:<type>;base64," prefix. *)
Files == {[name |-> "chair.jpg", type |-> "image/jpeg", content |-> "JPG1"]}

ImageData == {"PNGA", "PNGB"}

(* process.env.API_KEY || '' *)
ApiKeys == {"", "key"}

VARIABLES
  now,               \* the value Date.now() returns
  API_KEY,           \* geminiService.ts module constant
  sessions,          \* App state
  currentSessionId,  \* App state
  input,             \* App state
  selectedFile,      \* App state
  isLoading,         \* App state
  sends,             \* the handleSend invocations suspended at an await
  localStorage,      \* the entries aidesigner_sessions and aidesigner_current_id
  storageFull,       \* whether localStorage.setItem throws (quota exceeded)
  apiResponse,       \* a response of ai.models.generateContent
  parsed,            \* what generateSingleImage made of apiResponse
  userActions,       \* history: how many user events have been handled
  lastOp             \* history: what the last task was and what it did

vars == <<now, API_KEY, sessions, currentSessionId, input, selectedFile,
          isLoading, sends, localStorage, storageFull, apiResponse, parsed,
          userActions, lastOp>>

(* --------------------------- session store ----------------------------- *)
createNewSession(t) ==
  [id |-> ToString(t),
   title |-> "",
   messages |-> <<>>,
   gallery |-> <<>>,
   activeReferenceImage |-> NoImage,
   lastModified |-> t,
   aspectRatio |-> "3:4",
   numberOfImages |-> 1]

HasSession(sess, id) == \E i \in 1..Len(sess) : sess[i].id = id

(* Array.prototype.find: the first match *)
FirstIndex(sess, id) ==
  CHOOSE i \in 1..Len(sess) :
    sess[i].id = id /\ \A j \in 1..(i - 1) : sess[j].id # id

(* a variant of the effect that falls back to the last session *)
EnsureValidPicksLast(sess, cur, t) ==
  IF HasSession(sess, cur) THEN <<sess, cur>>
  ELSE IF Len(sess) > 0 THEN <<sess, sess[Len(sess)].id>>
  ELSE <<<<createNewSession(t)>>, ToString(t)>>

(* The "ensure valid current session" effect, run until it changes
   nothing: the pair <<sessions, currentSessionId>> it settles on. *)
EnsureValid(sess, cur, t) ==
  IF HasSession(sess, cur) THEN <<sess, cur>>
  ELSE IF Len(sess) > 0 THEN <<sess, sess[1].id>>
  ELSE <<<<createNewSession(t)>>, ToString(t)>>

(* useMemo activeSession *)
ActiveSessionOf(sess, cur) ==
  IF HasSession(sess, cur) THEN sess[FirstIndex(sess, cur)] ELSE sess[1]

activeSession == ActiveSessionOf(sessions, currentSessionId)

(* updateCurrentSession, for the currentSessionId its closure holds;
   updated[i] is what the updater returns for sess[i] *)
updateCurrentSession(sess, cur, updated, t) ==
  [i \in 1..Len(sess) |->
     IF sess[i].id = cur THEN [updated[i] EXCEPT !.lastModified = t]
     ELSE sess[i]]

(* Array.prototype.filter(s => s.id !== id) *)
RECURSIVE FilterOut(_, _)
FilterOut(sess, id) ==
  IF sess = <<>> THEN <<>>
  ELSE IF Head(sess).id # id THEN <<Head(sess)>> \o FilterOut(Tail(sess), id)
  ELSE FilterOut(Tail(sess), id)

(* a variant that keeps the collection when the filter leaves nothing *)
handleDeleteSessionKeepsLast(prev, id, t) ==
  LET filtered == FilterOut(prev, id)
  IN IF Len(filtered) = 0 THEN prev ELSE filtered

(* the setSessions updater of handleDeleteSession *)
handleDeleteSession(prev, id, t) ==
  LET filtered == FilterOut(prev, id)
  IN IF Len(filtered) = 0 THEN <<createNewSession(t)>> ELSE filtered

(* a variant that puts the new session after the others *)
handleCreateSessionAtEnd(prev, t) == prev \o <<createNewSession(t)>>

(* the setSessions updater of handleCreateSession *)
handleCreateSession(prev, t) == <<createNewSession(t)>> \o prev

(* ------------------------------ JSON codec ----------------------------- *)
(* A JSON text is held as the sequence of its lexemes: the punctuation
   marks, null, a number in digits, a string in quotes with its escapes.
   The text itself is their concatenation. *)
(* what JSON.stringify writes for one character of a string *)
EscapeChar(c) ==
  CASE c = "\"" -> "\\\""
    [] c = "\\" -> "\\\\"
    [] c = "\n" -> "\\n"
    [] c = "\t" -> "\\t"
    [] OTHER -> c

(* the characters of s escaped: s itself when none needs an escape,
   else its left half then its right half *)
RECURSIVE Escape(_)
Escape(s) ==
  IF \A j \in 1..Len(s) : SubSeq(s, j, j) \notin {"\"", "\\", "\n", "\t"} THEN s
  ELSE IF Len(s) = 1 THEN EscapeChar(s)
  ELSE Escape(SubSeq(s, 1, Len(s) \div 2))
         \o Escape(SubSeq(s, Len(s) \div 2 + 1, Len(s)))

(* what JSON.parse reads for the character after a backslash *)
UnescapeChar(c) ==
  CASE c = "n" -> "\n"
    [] c = "t" -> "\t"
    [] OTHER -> c

(* how many backslashes end the first m characters of s *)
TrailingBackslashes(s, m) ==
  CHOOSE k \in 0..m :
    /\ \A j \in (m - k + 1)..m : SubSeq(s, j, j) = "\\"
    /\ (k = m \/ SubSeq(s, m - k, m - k) # "\\")

(* a variant that leaves the escapes in the string *)
UnescapeKeepsEscapes(s) == s

(* the escapes of s undone: s itself when it has no backslash, else its
   two halves, cut between two characters and never between a backslash
   and the character it escapes *)
RECURSIVE Unescape(_)
Unescape(s) ==
  IF \A j \in 1..Len(s) : SubSeq(s, j, j) # "\\" THEN s
  ELSE IF Len(s) = 2 /\ SubSeq(s, 1, 1) = "\\" THEN UnescapeChar(SubSeq(s, 2, 2))
  ELSE LET half == Len(s) \div 2
           m == IF TrailingBackslashes(s, half) % 2 = 1 THEN half + 1 ELSE half
       IN Unescape(SubSeq(s, 1, m)) \o Unescape(SubSeq(s, m + 1, Len(s)))

JsonString(s) == <<"\"" \o Escape(s) \o "\"">>
JsonNumber(n) == <<ToString(n)>>

RECURSIVE JoinWithCommas(_)
JoinWithCommas(items) ==
  IF items = <<>> THEN <<>>
  ELSE IF Len(items) = 1 THEN items[1]
  ELSE items[1] \o <<",">> \o JoinWithCommas(Tail(items))

JsonArray(items) == <<"[">> \o JoinWithCommas(items) \o <<"]">>
JsonMember(key, value) == JsonString(key) \o <<":">> \o value
JsonObject(members) == <<"{">> \o JoinWithCommas(members) \o <<"}">>

(* JSON.stringify of an ImageAttachment | null *)
ImageAttachmentJson(a) ==
  IF a = NoImage THEN <<"null">>
  ELSE JsonObject(<<JsonMember("mimeType", JsonString(a.mimeType)),
                    JsonMember("data", JsonString(a.data))>>)

(* JSON.stringify of a GeneratedImage *)
GeneratedImageJson(g) ==
  JsonObject(<<JsonMember("id", JsonString(g.id)),
               JsonMember("data", JsonString(g.data)),
               JsonMember("prompt", JsonString(g.prompt)),
               JsonMember("timestamp", JsonNumber(g.timestamp))>>)

(* JSON.stringify of a Message: a property that is undefined is left
   out; a user message has attachments (an array, maybe empty) and no
   generatedImages, an AI message has generatedImages unless it reports
   an error and never has attachments. *)
MessageJson(m) ==
  JsonObject(
    <<JsonMember("id", JsonString(m.id)),
      JsonMember("sender", JsonString(m.sender)),
      JsonMember("text", JsonString(m.text))>>
    \o (IF m.sender = "user"
        THEN <<JsonMember("attachments",
                 JsonArray([j \in 1..Len(m.attachments) |->
                              ImageAttachmentJson(m.attachments[j])]))>>
        ELSE <<>>)
    \o (IF m.sender = "ai" /\ m.generatedImages # <<>>
        THEN <<JsonMember("generatedImages",
                 JsonArray([j \in 1..Len(m.generatedImages) |->
                              GeneratedImageJson(m.generatedImages[j])]))>>
        ELSE <<>>)
    \o <<JsonMember("timestamp", JsonNumber(m.timestamp))>>)

(* JSON.stringify of a Session *)
SessionJson(s) ==
  JsonObject(
    <<JsonMember("id", JsonString(s.id)),
      JsonMember("title", JsonString(s.title)),
      JsonMember("messages",
        JsonArray([j \in 1..Len(s.messages) |-> MessageJson(s.messages[j])])),
      JsonMember("gallery",
        JsonArray([j \in 1..Len(s.gallery) |-> GeneratedImageJson(s.gallery[j])])),
      JsonMember("activeReferenceImage", ImageAttachmentJson(s.activeReferenceImage)),
      JsonMember("lastModified", JsonNumber(s.lastModified)),
      JsonMember("aspectRatio", JsonString(s.aspectRatio)),
      JsonMember("numberOfImages", JsonNumber(s.numberOfImages))>>)

(* JSON.stringify(sessions) *)
JSONStringify(sess) ==
  JsonArray([i \in 1..Len(sess) |-> SessionJson(sess[i])])

IsStringLexeme(tok) ==
  /\ Len(tok) >= 2
  /\ SubSeq(tok, 1, 1) = "\""
  /\ SubSeq(tok, Len(tok), Len(tok)) = "\""

IsDigit(c) == \E d \in 0..9 : ToString(d) = c
DigitValue(c) == CHOOSE d \in 0..9 : ToString(d) = c

IsNumberLexeme(tok) ==
  Len(tok) >= 1 /\ \A j \in 1..Len(tok) : IsDigit(SubSeq(tok, j, j))

RECURSIVE NumberValue(_)
NumberValue(tok) ==
  IF Len(tok) = 1 THEN DigitValue(tok)
  ELSE 10 * NumberValue(SubSeq(tok, 1, Len(tok) - 1))
         + DigitValue(SubSeq(tok, Len(tok), Len(tok)))

(* The parser: the value that starts at lexeme i and the index after
   it, or a failure (JSON.parse throws SyntaxError).  null is read as
   NoImage, an array as a sequence, an object as a record. *)
ParseFailure == [ok |-> FALSE, value |-> <<>>, next |-> 0]
Parsed(v, n) == [ok |-> TRUE, value |-> v, next |-> n]

RECURSIVE ParseValue(_, _)
RECURSIVE ParseElements(_, _, _)
RECURSIVE ParseMembers(_, _, _)

ParseValue(text, i) ==
  IF i > Len(text) THEN ParseFailure
  ELSE LET tok == text[i]
       IN CASE tok = "null" -> Parsed(NoImage, i + 1)
            [] tok = "[" ->
                 IF i + 1 <= Len(text) /\ text[i + 1] = "]"
                 THEN Parsed(<<>>, i + 2)
                 ELSE ParseElements(text, i + 1, <<>>)
            [] tok = "{" ->
                 IF i + 1 <= Len(text) /\ text[i + 1] = "}"
                 THEN Parsed(<<>>, i + 2)
                 ELSE ParseMembers(text, i + 1, <<>>)
            [] IsStringLexeme(tok) ->
                 Parsed(Unescape(SubSeq(tok, 2, Len(tok) - 1)), i + 1)
            [] IsNumberLexeme(tok) -> Parsed(NumberValue(tok), i + 1)
            [] OTHER -> ParseFailure

ParseElements(text, i, acc) ==
  LET r == ParseValue(text, i)
  IN IF ~r.ok \/ r.next > Len(text) THEN ParseFailure
     ELSE IF text[r.next] = ","
     THEN ParseElements(text, r.next + 1, Append(acc, r.value))
     ELSE IF text[r.next] = "]" THEN Parsed(Append(acc, r.value), r.next + 1)
     ELSE ParseFailure

ParseMembers(text, i, acc) ==
  IF i + 1 > Len(text) \/ ~IsStringLexeme(text[i]) \/ text[i + 1] # ":"
  THEN ParseFailure
  ELSE LET key == Unescape(SubSeq(text[i], 2, Len(text[i]) - 1))
           r == ParseValue(text, i + 2)
       IN IF ~r.ok \/ r.next > Len(text) THEN ParseFailure
          ELSE IF text[r.next] = ","
          THEN ParseMembers(text, r.next + 1, (key :> r.value) @@ acc)
          ELSE IF text[r.next] = "}"
          THEN Parsed((key :> r.value) @@ acc, r.next + 1)
          ELSE ParseFailure

(* JSON.parse(text) *)
JSONParse(text) ==
  LET r == ParseValue(text, 1)
  IN IF r.ok /\ r.next = Len(text) + 1 THEN [ok |-> TRUE, value |-> r.value]
     ELSE [ok |-> FALSE, value |-> <<>>]

(* The parsed collection in the shape the sessions of this model have:
   a message property the text does not have is undefined, written <<>>. *)
Property(obj, key) == IF key \in DOMAIN obj THEN obj[key] ELSE <<>>

ReviveMessage(m) ==
  [id |-> m.id,
   sender |-> m.sender,
   text |-> m.text,
   attachments |-> Property(m, "attachments"),
   generatedImages |-> Property(m, "generatedImages"),
   timestamp |-> m.timestamp]

ReviveSessions(value) ==
  [i \in 1..Len(value) |->
     [value[i] EXCEPT !.messages =
        [j \in 1..Len(value[i].messages) |-> ReviveMessage(value[i].messages[j])]]]

(* ----------------------------- persistence ----------------------------- *)
(* A localStorage entry: getItem returns null (has = FALSE) or a text.
   The text JSON.stringify wrote is kept as the collection it was given
   (json = TRUE, value) and spelled out when it is read; any other text
   is kept as it is (text). *)
NoItem == [has |-> FALSE, json |-> FALSE, value |-> <<>>, text |-> <<>>]
Text(text) == [has |-> TRUE, json |-> FALSE, value |-> <<>>, text |-> text]
Stringified(sess) == [has |-> TRUE, json |-> TRUE, value |-> sess, text |-> <<>>]

(* localStorage.getItem: the text of an entry that is there *)
GetItem(item) == IF item.json THEN JSONStringify(item.value) ELSE item.text

(* the entry of the current id: a plain string *)
NoId == [has |-> FALSE, text |-> ""]
Id(cur) == [has |-> TRUE, text |-> cur]

EmptyStorage == [aidesigner_sessions |-> NoItem, aidesigner_current_id |-> NoId]

(* a variant of the effect that writes the collection only *)
PersistSessionsOnly(store, full, sess, cur) ==
  IF full THEN store
  ELSE [store EXCEPT !.aidesigner_sessions = Stringified(sess)]

(* The persistence effect: both setItem calls, or none when the first
   throws because the quota is exceeded; the catch only logs. *)
Persist(store, full, sess, cur) ==
  IF full THEN store
  ELSE [aidesigner_sessions |-> Stringified(sess),
        aidesigner_current_id |-> Id(cur)]

(* The try block of the sessions initialiser: whether JSON.parse
   returned a value (getItem gave a non-empty text and the text parsed),
   whether that value is an array, which is when the text opens with a
   bracket, and the value, in the shape of sessions, when it is. *)
NothingSaved == [returned |-> FALSE, array |-> FALSE, value |-> <<>>]

SavedSessions(store) ==
  LET saved == store.aidesigner_sessions
      text == IF saved.has THEN GetItem(saved) ELSE <<>>
  IN IF text = <<>> THEN NothingSaved
     ELSE LET r == JSONParse(text)
          IN IF ~r.ok THEN NothingSaved
             ELSE IF text[1] = "["
             THEN [returned |-> TRUE, array |-> TRUE,
                   value |-> ReviveSessions(r.value)]
             ELSE [returned |-> TRUE, array |-> FALSE, value |-> <<>>]

(* the initialiser of the sessions state *)
InitialSessions(saved, t) ==
  IF saved.returned THEN saved.value ELSE <<createNewSession(t)>>

(* the initialiser of the currentSessionId state: savedId || '' *)
InitialCurrentSessionId(store) ==
  IF store.aidesigner_current_id.has THEN store.aidesigner_current_id.text
  ELSE ""

(* The first render calls sessions.find (useMemo activeSession): it
   throws TypeError when the sessions state is not an array. *)
RenderThrows(saved) == saved.returned /\ ~saved.array

(* Mounting App at time t over a store of which saved was read: the
   state once the effects of the first renders have run.  When the first
   render throws, React unmounts the tree: there is no state, and no
   effect has run. *)
Mount(store, saved, full, t) ==
  IF RenderThrows(saved)
  THEN [threw |-> TRUE, sessions |-> <<>>, currentSessionId |-> "",
        localStorage |-> store]
  ELSE LET settled == EnsureValid(InitialSessions(saved, t),
                                  InitialCurrentSessionId(store), t)
       IN [threw |-> FALSE,
           sessions |-> settled[1],
           currentSessionId |-> settled[2],
           localStorage |-> Persist(store, full, settled[1], settled[2])]

(* a variant in which a change the store rejects is lost in memory too *)
CommitOnlyWhenSaved(sess, cur, t) ==
  LET settled == EnsureValid(sess, cur, t)
  IN IF storageFull
     THEN UNCHANGED <<sessions, currentSessionId, localStorage>>
     ELSE /\ sessions' = settled[1]
          /\ currentSessionId' = settled[2]
          /\ localStorage' = Persist(localStorage, storageFull,
                                     settled[1], settled[2])

(* A render followed by the effects: the state the next task sees. *)
Commit(sess, cur, t) ==
  LET settled == EnsureValid(sess, cur, t)
  IN /\ sessions' = settled[1]
     /\ currentSessionId' = settled[2]
     /\ localStorage' =
          IF sess = sessions /\ cur = currentSessionId THEN localStorage
          ELSE Persist(localStorage, storageFull, settled[1], settled[2])

(* Date.now() in a task that starts when the last reading was n: time
   has not moved by a millisecond, or it has. *)
Clock(n) == {t \in {n, n + 1} : t <= MaxTime}

(* lastOp: the task that ran last.  For a task of handleSend: outcome is
   "ignored", "reading", "generating", "aborted", "failed" or "succeeded",
   ctx the invocation's captured values, issued the number of calls the
   task started, calls the calls as Promise.all saw them when it settled,
   results what generateOrEditImage returned and error the message of
   what it threw.  For a delete: id is the id deleted and left the
   number of sessions the filter kept.  For a call's return: settled is
   the index of the call that settled. *)
NoCtx == [sid |-> "", currentInput |-> "", currentFile |-> NoFile,
          currentAspectRatio |-> "", currentNumImages |-> 0,
          attachmentForRequest |-> NoImage, messageAttachments |-> <<>>]

Op(name) ==
  [op |-> name, outcome |-> "", ctx |-> NoCtx, issued |-> 0, calls |-> <<>>,
   results |-> <<>>, error |-> "", id |-> "", left |-> 0, settled |-> 0]

(* ------------------------ image request service ----------------------- *)
(* A response part: inlineData.data ("" when absent) and text ("" when
   absent).  A candidate: whether content && content.parts holds, the
   parts, and finishReason ("" when absent). *)
ImagePart(d) == [data |-> d, text |-> ""]
TextPart(t) == [data |-> "", text |-> t]
Candidate(hasParts, parts, reason) ==
  [hasParts |-> hasParts, parts |-> parts, finishReason |-> reason]
Response(cands) == [candidates |-> cands]

Fulfilled(d) == [ok |-> TRUE, data |-> d, message |-> ""]
Rejected(m) == [ok |-> FALSE, data |-> "", message |-> m]

(* the for loop over content.parts: the first image, else the text *)
RECURSIVE ScanParts(_, _)
ScanParts(parts, textOutput) ==
  IF parts = <<>> THEN [image |-> "", text |-> textOutput]
  ELSE IF Truthy(Head(parts).data) THEN [image |-> Head(parts).data, text |-> ""]
  ELSE ScanParts(Tail(parts), textOutput \o Head(parts).text)

(* a variant that embeds the whole text *)
ModelResponseErrorWhole(textOutput) ==
  "Model response: \"" \o textOutput \o "\""

ModelResponseError(textOutput) ==
  "Model response: \"" \o Slice(textOutput, PreviewLen)
    \o (IF Len(textOutput) > PreviewLen THEN "..." ELSE "") \o "\""

(* a variant that does not take STOP for the normal reason *)
FinishReasonCheckNamesStop(response) ==
  IF /\ Len(response.candidates) > 0
     /\ Truthy(response.candidates[1].finishReason)
  THEN Rejected("Generation stopped due to: "
                  \o response.candidates[1].finishReason)
  ELSE Rejected("No image data found in response.")

(* generateSingleImage's last checks: the finish reason, then the generic error *)
FinishReasonCheck(response) ==
  IF /\ Len(response.candidates) > 0
     /\ Truthy(response.candidates[1].finishReason)
     /\ response.candidates[1].finishReason # "STOP"
  THEN Rejected("Generation stopped due to: "
                  \o response.candidates[1].finishReason)
  ELSE Rejected("No image data found in response.")

(* generateSingleImage after the response has arrived *)
ParseResponse(response) ==
  IF Len(response.candidates) > 0 /\ response.candidates[1].hasParts
  THEN LET scan == ScanParts(response.candidates[1].parts, "")
       IN IF Truthy(scan.image) THEN Fulfilled(scan.image)
          ELSE IF Truthy(scan.text) THEN Rejected(ModelResponseError(scan.text))
          ELSE FinishReasonCheck(response)
  ELSE FinishReasonCheck(response)

StyleInstruction(referenceImage) ==
  " Style: product editorial photography, award winning style, for fashion and other products."
    \o (IF referenceImage # NoImage
        THEN " Rearrange the product into a more editorial professional product photo."
        ELSE " Composition: Professional editorial product layout.")

CorePrompt(prompt, referenceImage) ==
  IF Truthy(prompt) THEN prompt
  ELSE IF referenceImage # NoImage THEN "Generate a variation of this image."
  ELSE "Generate an image of a high-end product."

FullPrompt(prompt, aspectRatio, referenceImage) ==
  CorePrompt(prompt, referenceImage) \o " " \o StyleInstruction(referenceImage)
    \o " " \o " Aspect ratio: " \o aspectRatio \o "."

(* a variant that never adds the reference image part *)
GenerateRequestTextOnly(prompt, aspectRatio, referenceImage) ==
  [inlineData |-> NoImage,
   text |-> FullPrompt(prompt, aspectRatio, referenceImage)]

(* the request generateSingleImage sends: parts = [inlineData?, text] *)
GenerateRequest(prompt, aspectRatio, referenceImage) ==
  [inlineData |-> referenceImage,
   text |-> FullPrompt(prompt, aspectRatio, referenceImage)]

PendingCall(request) ==
  [status |-> "pending", request |-> request, data |-> "", message |-> ""]

(* a call after its promise has settled with outcome *)
Settle(call, outcome) ==
  [call EXCEPT !.status = IF outcome.ok THEN "fulfilled" ELSE "rejected",
               !.data = outcome.data,
               !.message = outcome.message]

(* generateOrEditImage up to its await: the error it throws at once
   (thrown, message) or the calls it has started. *)
StartGenerate(prompt, aspectRatio, numberOfImages, referenceImage) ==
  IF ~Truthy(API_KEY)
  THEN [thrown |-> TRUE,
        message |-> "API Key not found. Please check your environment variables.",
        calls |-> <<>>]
  ELSE [thrown |-> FALSE,
        message |-> "",
        calls |-> [i \in 1..numberOfImages |->
                     PendingCall(GenerateRequest(prompt, aspectRatio, referenceImage))]]

(* a variant that waits for every call and keeps the values of those
   that were fulfilled, as Promise.allSettled with a filter would *)
PromiseAllSettled(calls, i) ==
  IF \E j \in 1..Len(calls) : calls[j].status = "pending"
  THEN [state |-> "pending", results |-> <<>>, message |-> ""]
  ELSE [state |-> "fulfilled",
        results |-> SelectSeq([j \in 1..Len(calls) |-> calls[j].data], Truthy),
        message |-> ""]

(* a variant that hands the values over in the order of completion: the
   value of the call that settled last comes last *)
PromiseAllInCompletionOrder(calls, i) ==
  IF calls[i].status = "rejected"
  THEN [state |-> "rejected", results |-> <<>>, message |-> calls[i].message]
  ELSE IF \A j \in 1..Len(calls) : calls[j].status = "fulfilled"
  THEN [state |-> "fulfilled",
        results |-> [j \in 1..Len(calls) |->
                       IF j = Len(calls) THEN calls[i].data
                       ELSE IF j < i THEN calls[j].data ELSE calls[j + 1].data],
        message |-> ""]
  ELSE [state |-> "pending", results |-> <<>>, message |-> ""]

(* Promise.all over the calls, when call i has just settled: rejected
   with the reason of that call if it was rejected, fulfilled with every
   call's value in the order of the array once none is pending. *)
PromiseAll(calls, i) ==
  IF calls[i].status = "rejected"
  THEN [state |-> "rejected", results |-> <<>>, message |-> calls[i].message]
  ELSE IF \A j \in 1..Len(calls) : calls[j].status = "fulfilled"
  THEN [state |-> "fulfilled",
        results |-> [j \in 1..Len(calls) |-> calls[j].data],
        message |-> ""]
  ELSE [state |-> "pending", results |-> <<>>, message |-> ""]

(* what the external model may answer to one call *)
RefusalText == "I cannot create that image."
CallOutcomes ==
  {ParseResponse(Response(<<Candidate(TRUE, <<ImagePart(d)>>, "STOP")>>)) : d \in ImageData}
  \cup {ParseResponse(Response(<<Candidate(TRUE, <<TextPart(RefusalText)>>, "STOP")>>)),
        Rejected("Failed to fetch"),
        Rejected("")}

(* --------------------------- attachment codec -------------------------- *)
(* FileReader.readAsDataURL *)
ReadAsDataURL(file) == "data:" \o file.type \o ";base64," \o file.content

(* the index of the first "," of s at or after i, or Len(s) + 1 *)
RECURSIVE CommaFrom(_, _)
CommaFrom(s, i) ==
  IF i > Len(s) THEN Len(s) + 1
  ELSE IF SubSeq(s, i, i) = "," THEN i
  ELSE CommaFrom(s, i + 1)

(* result.split(',')[1] *)
SplitSecond(s) ==
  LET c1 == CommaFrom(s, 1)
      c2 == CommaFrom(s, c1 + 1)
  IN SubSeq(s, c1 + 1, c2 - 1)

(* a variant that keeps the Data-URL prefix *)
fileToBase64KeepsPrefix(file) == ReadAsDataURL(file)

fileToBase64(file) == SplitSecond(ReadAsDataURL(file))

(* ------------------------------ startup -------------------------------- *)
(* The first render creates the session at time 0 and its effects make
   it current; the first user event comes at least a millisecond later. *)
Init ==
  /\ now = 1
  /\ API_KEY \in ApiKeys
  /\ LET settled == EnsureValid(<<createNewSession(0)>>, "", 0)
     IN /\ sessions = settled[1]
        /\ currentSessionId = settled[2]
  /\ input = ""
  /\ selectedFile = NoFile
  /\ isLoading = FALSE
  /\ sends = <<>>
  /\ storageFull = FALSE
  /\ localStorage = Persist(EmptyStorage, FALSE,
                            EnsureValid(<<createNewSession(0)>>, "", 0)[1],
                            EnsureValid(<<createNewSession(0)>>, "", 0)[2])
  /\ apiResponse = Response(<<>>)
  /\ parsed = Rejected("")
  /\ userActions = 0
  /\ lastOp = Op("init")

(* a user event: a click, a key, a file choice *)
UserEvent ==
  /\ userActions < MaxUserActions
  /\ userActions' = userActions + 1

(* --------------------------- session actions --------------------------- *)
(* a variant in which the sidebar's controls stay enabled during a send *)
SidebarNeverDisabled(loading) == FALSE

(* SessionSidebar's isLoading prop as its three controls use it:
   disabled={isLoading} on the New Project and delete buttons, and
   !isLoading && ... in the row's onClick *)
SidebarDisabled(loading) == loading

(* SessionSidebar "New Project" button: disabled={isLoading} *)
CreateSession ==
  /\ UserEvent
  /\ ~SidebarDisabled(isLoading)
  /\ \E t \in Clock(now) :
       /\ now' = t
       /\ Commit(handleCreateSession(sessions, t), ToString(t), t)
  /\ input' = ""
  /\ selectedFile' = NoFile
  /\ lastOp' = Op("create")
  /\ UNCHANGED <<API_KEY, storageFull, apiResponse, parsed, isLoading, sends>>

(* SessionSidebar delete button: rendered when sessions.length > 1,
   disabled={isLoading} *)
DeleteSession(i) ==
  /\ UserEvent
  /\ Len(sessions) > 1
  /\ ~SidebarDisabled(isLoading)
  /\ \E t \in Clock(now) :
       /\ now' = t
       /\ Commit(handleDeleteSession(sessions, sessions[i].id, t),
                 currentSessionId, t)
  /\ lastOp' = [Op("delete") EXCEPT
                  !.id = sessions[i].id,
                  !.left = Len(FilterOut(sessions, sessions[i].id))]
  /\ UNCHANGED <<API_KEY, storageFull, apiResponse, parsed, input, selectedFile,
                 isLoading, sends>>

(* SessionSidebar row: onClick={() => !isLoading && onSelectSession(id)} *)
SelectSession(i) ==
  /\ UserEvent
  /\ ~SidebarDisabled(isLoading)
  /\ Commit(sessions, sessions[i].id, now)
  /\ lastOp' = Op("select")
  /\ UNCHANGED <<now, API_KEY, storageFull, apiResponse, parsed, input,
                 selectedFile, isLoading, sends>>

(* ------------------------------ send flow ------------------------------ *)
(* the sequence without its k-th element *)
RemoveAt(seq, k) == SubSeq(seq, 1, k - 1) \o SubSeq(seq, k + 1, Len(seq))

(* a variant of the guard that does not look at isLoading *)
SendIgnoredWhenEmpty(inp, file, loading) ==
  ~Truthy(Trim(inp)) /\ file = NoFile

(* the guard of handleSend: TRUE when the call returns at once *)
SendIgnored(inp, file, loading) ==
  (~Truthy(Trim(inp)) /\ file = NoFile) \/ loading

(* the values handleSend captures on entry; sid is the currentSessionId
   the closure of updateCurrentSession holds *)
Capture ==
  [sid |-> currentSessionId,
   currentInput |-> input,
   currentFile |-> selectedFile,
   currentAspectRatio |-> activeSession.aspectRatio,
   currentNumImages |-> IF activeSession.numberOfImages # 0
                        THEN activeSession.numberOfImages ELSE 1,
   attachmentForRequest |-> NoImage,
   messageAttachments |-> <<>>]

UserMessage(ctx, t) ==
  [id |-> ToString(t),
   sender |-> "user",
   text |-> ctx.currentInput,
   attachments |-> ctx.messageAttachments,
   generatedImages |-> <<>>,
   timestamp |-> t]

(* a variant that derives the title from every user message *)
NewTitleOverwrites(title, currentInput, currentFile) ==
  IF Truthy(currentInput)
  THEN Slice(currentInput, TitleLen)
         \o (IF Len(currentInput) > TitleLen THEN "..." ELSE "")
  ELSE IF currentFile # NoFile THEN "Image Upload"
  ELSE title

NewTitle(title, currentInput, currentFile) ==
  IF ~Truthy(title) /\ Truthy(currentInput)
  THEN Slice(currentInput, TitleLen)
         \o (IF Len(currentInput) > TitleLen THEN "..." ELSE "")
  ELSE IF ~Truthy(title) /\ currentFile # NoFile THEN "Image Upload"
  ELSE title

(* the updater that appends the user message and derives the title *)
AppendUser(s, ctx, t) ==
  [s EXCEPT !.messages = Append(s.messages, UserMessage(ctx, t)),
            !.title = NewTitle(s.title, ctx.currentInput, ctx.currentFile)]

GeneratedImages(ctx, imageBytesArray, t) ==
  [idx \in 1..Len(imageBytesArray) |->
     [id |-> ToString(t) \o "-" \o ToString(idx - 1),
      data |-> imageBytesArray[idx],
      prompt |-> IF Truthy(ctx.currentInput) THEN ctx.currentInput
                 ELSE IF ctx.attachmentForRequest # NoImage
                      THEN "Variation of image" ELSE "Generated Image",
      timestamp |-> t]]

AiText(ctx, count) ==
  LET countText == IF count > 1 THEN " " \o ToString(count) \o " images" ELSE ""
      ratio == " (" \o ctx.currentAspectRatio \o ")"
  IN IF ctx.attachmentForRequest # NoImage /\ ctx.currentFile = NoFile
     THEN "I've updated the reference image based on: \"" \o ctx.currentInput
            \o "\"" \o ratio \o countText
     ELSE IF ctx.attachmentForRequest # NoImage /\ ctx.currentFile # NoFile
     THEN IF Truthy(ctx.currentInput)
          THEN "Here is a variation based on your new image: \""
                 \o ctx.currentInput \o "\"" \o ratio \o countText
          ELSE "Here is a variation of your uploaded image" \o ratio \o countText
     ELSE "I've generated" \o countText \o " for you based on: \""
            \o ctx.currentInput \o "\"" \o ratio

AiMessage(ctx, imageBytesArray, t) ==
  [id |-> ToString(t + 1),
   sender |-> "ai",
   text |-> AiText(ctx, Len(imageBytesArray)),
   attachments |-> <<>>,
   generatedImages |-> GeneratedImages(ctx, imageBytesArray, t),
   timestamp |-> t]

(* a variant that reads the aspect ratio when the images arrive *)
AppendAiCurrentRatio(s, ctx, imageBytesArray, t) ==
  LET late == [ctx EXCEPT !.currentAspectRatio = s.aspectRatio]
  IN [s EXCEPT !.messages = Append(s.messages, AiMessage(late, imageBytesArray, t)),
               !.gallery = s.gallery \o GeneratedImages(late, imageBytesArray, t)]

(* a variant that makes the first result the reference image *)
AppendAiAdoptsResult(s, ctx, imageBytesArray, t) ==
  [s EXCEPT !.messages = Append(s.messages, AiMessage(ctx, imageBytesArray, t)),
            !.gallery = s.gallery \o GeneratedImages(ctx, imageBytesArray, t),
            !.activeReferenceImage =
               [mimeType |-> "image/png", data |-> imageBytesArray[1]]]

(* a variant that puts the new images in front of the gallery *)
AppendAiNewestFirst(s, ctx, imageBytesArray, t) ==
  [s EXCEPT !.messages = Append(s.messages, AiMessage(ctx, imageBytesArray, t)),
            !.gallery = GeneratedImages(ctx, imageBytesArray, t) \o s.gallery]

(* the updater of the success path *)
AppendAi(s, ctx, imageBytesArray, t) ==
  [s EXCEPT !.messages = Append(s.messages, AiMessage(ctx, imageBytesArray, t)),
            !.gallery = s.gallery \o GeneratedImages(ctx, imageBytesArray, t)]

(* a variant without the fallback phrase *)
ErrorTextNoFallback(message) ==
  "I encountered an error: " \o message \o ". Please try again."

ErrorText(message) ==
  "I encountered an error: "
    \o (IF Truthy(message) THEN message ELSE "Unknown error occurred.")
    \o ". Please try again."

ErrorMessage(message, t) ==
  [id |-> ToString(t + 1),
   sender |-> "ai",
   text |-> ErrorText(message),
   attachments |-> <<>>,
   generatedImages |-> <<>>,
   timestamp |-> t]

(* a variant that puts the error in the place of the last message *)
AppendErrorReplacesLast(s, message, t) ==
  [s EXCEPT !.messages = Append(SubSeq(s.messages, 1, Len(s.messages) - 1),
                                ErrorMessage(message, t))]

(* the updater of the catch block *)
AppendError(s, message, t) ==
  [s EXCEPT !.messages = Append(s.messages, ErrorMessage(message, t))]

(* the catch block of handleSend: the sessions after it *)
CatchSend(sess, ctx, message, t) ==
  updateCurrentSession(sess, ctx.sid,
    [i \in 1..Len(sess) |-> AppendError(sess[i], message, t)], t)

(* the success path of handleSend: the sessions after it *)
SucceedSend(sess, ctx, imageBytesArray, t) ==
  updateCurrentSession(sess, ctx.sid,
    [i \in 1..Len(sess) |-> AppendAi(sess[i], ctx, imageBytesArray, t)], t)

(* handleSend from the user message to the await of generateOrEditImage:
   ctx has its attachments settled, sess is the collection so far and
   others the suspended invocations other than this one. *)
Proceed(sess, ctx, others, name, t) ==
  LET sess1 == updateCurrentSession(sess, ctx.sid,
                 [i \in 1..Len(sess) |-> AppendUser(sess[i], ctx, t)], t)
      gen == StartGenerate(ctx.currentInput, ctx.currentAspectRatio,
                           ctx.currentNumImages, ctx.attachmentForRequest)
  IN IF gen.thrown
     THEN /\ Commit(CatchSend(sess1, ctx, gen.message, t), currentSessionId, t)
          /\ isLoading' = FALSE
          /\ sends' = others
          /\ lastOp' = [Op(name) EXCEPT !.outcome = "failed", !.ctx = ctx,
                                        !.error = gen.message]
     ELSE /\ Commit(sess1, currentSessionId, t)
          /\ isLoading' = TRUE
          /\ sends' = Append(others, [pc |-> "generating", ctx |-> ctx,
                                      calls |-> gen.calls])
          /\ lastOp' = [Op(name) EXCEPT !.outcome = "generating", !.ctx = ctx,
                                        !.issued = Len(gen.calls)]

(* Enter in the textarea, or the send button (disabled under the same
   condition the handler tests) *)
HandleSend ==
  /\ UserEvent
  /\ UNCHANGED <<API_KEY, storageFull, apiResponse, parsed>>
  /\ IF SendIgnored(input, selectedFile, isLoading)
     THEN /\ lastOp' = [Op("handleSend") EXCEPT !.outcome = "ignored"]
          /\ UNCHANGED <<now, sessions, currentSessionId, localStorage, input,
                         selectedFile, isLoading, sends>>
     ELSE /\ input' = ""
          /\ selectedFile' = NoFile
          /\ IF selectedFile # NoFile
             THEN /\ isLoading' = TRUE
                  /\ sends' = Append(sends, [pc |-> "reading", ctx |-> Capture,
                                             calls |-> <<>>])
                  /\ lastOp' = [Op("handleSend") EXCEPT !.outcome = "reading",
                                                        !.ctx = Capture]
                  /\ UNCHANGED <<now, sessions, currentSessionId,
                                 localStorage>>
             ELSE \E t \in Clock(now) :
                    /\ now' = t
                    /\ Proceed(sessions,
                               [Capture EXCEPT !.attachmentForRequest =
                                                  activeSession.activeReferenceImage],
                               sends, "handleSend", t)

(* fileToBase64 resolves *)
ReadDone(k) ==
  /\ UNCHANGED userActions
  /\ sends[k].pc = "reading"
  /\ LET ctx0 == sends[k].ctx
         newAttachment == [mimeType |-> ctx0.currentFile.type,
                           data |-> fileToBase64(ctx0.currentFile)]
         ctx == [ctx0 EXCEPT !.attachmentForRequest = newAttachment,
                             !.messageAttachments = <<newAttachment>>]
         upd == [i \in 1..Len(sessions) |->
                   [sessions[i] EXCEPT !.activeReferenceImage = newAttachment]]
     IN \E t \in Clock(now) :
          /\ now' = t
          /\ Proceed(updateCurrentSession(sessions, ctx.sid, upd, t), ctx,
                     RemoveAt(sends, k), "readDone", t)
  /\ UNCHANGED <<API_KEY, storageFull, apiResponse, parsed, input, selectedFile>>

(* a variant that leaves isLoading set *)
ReadFailedStaysLoading(k) ==
  /\ UNCHANGED userActions
  /\ sends[k].pc = "reading"
  /\ sends' = RemoveAt(sends, k)
  /\ lastOp' = [Op("readFailed") EXCEPT !.outcome = "aborted",
                                        !.ctx = sends[k].ctx]
  /\ UNCHANGED <<now, API_KEY, storageFull, apiResponse, parsed, sessions,
                 currentSessionId, localStorage, input, selectedFile,
                 isLoading>>

(* a variant that reports the read failure as an AI message *)
ReadFailedAppendsError(k) ==
  /\ UNCHANGED userActions
  /\ sends[k].pc = "reading"
  /\ isLoading' = FALSE
  /\ sends' = RemoveAt(sends, k)
  /\ Commit(CatchSend(sessions, sends[k].ctx, "Failed to process file", now),
            currentSessionId, now)
  /\ lastOp' = [Op("readFailed") EXCEPT !.outcome = "aborted",
                                        !.ctx = sends[k].ctx]
  /\ UNCHANGED <<now, API_KEY, storageFull, apiResponse, parsed, input,
                 selectedFile>>

(* fileToBase64 rejects (reader.onerror) *)
ReadFailed(k) ==
  /\ UNCHANGED userActions
  /\ sends[k].pc = "reading"
  /\ isLoading' = FALSE
  /\ sends' = RemoveAt(sends, k)
  /\ lastOp' = [Op("readFailed") EXCEPT !.outcome = "aborted",
                                        !.ctx = sends[k].ctx]
  /\ UNCHANGED <<now, API_KEY, storageFull, apiResponse, parsed, sessions,
                 currentSessionId, localStorage, input, selectedFile>>

(* one generateContent call settles, and handleSend resumes if that
   settles Promise.all *)
CallReturn(k, i, outcome) ==
  /\ UNCHANGED userActions
  /\ sends[k].pc = "generating"
  /\ sends[k].calls[i].status = "pending"
  /\ LET ctx == sends[k].ctx
         calls == [sends[k].calls EXCEPT ![i] = Settle(@, outcome)]
         all == PromiseAll(calls, i)
         done(name) == [Op("callReturn") EXCEPT !.outcome = name, !.ctx = ctx,
                                                !.calls = calls,
                                                !.settled = i,
                                                !.results = all.results,
                                                !.error = all.message]
     IN CASE all.state = "rejected" ->
               /\ \E t \in Clock(now) :
                    /\ now' = t
                    /\ Commit(CatchSend(sessions, ctx, all.message, t),
                              currentSessionId, t)
               /\ isLoading' = FALSE
               /\ sends' = RemoveAt(sends, k)
               /\ lastOp' = done("failed")
          [] all.state = "fulfilled" ->
               /\ \E t \in Clock(now) :
                    /\ now' = t
                    /\ Commit(SucceedSend(sessions, ctx, all.results, t),
                              currentSessionId, t)
               /\ isLoading' = FALSE
               /\ sends' = RemoveAt(sends, k)
               /\ lastOp' = done("succeeded")
          [] OTHER ->
               /\ sends' = [sends EXCEPT ![k].calls = calls]
               /\ lastOp' = done("generating")
               /\ UNCHANGED <<now, sessions, currentSessionId, localStorage,
                              isLoading>>
  /\ UNCHANGED <<API_KEY, storageFull, apiResponse, parsed, input, selectedFile>>

(* ---------------------------- other handlers --------------------------- *)
(* textarea onChange *)
SetInput(text) ==
  /\ UserEvent
  /\ input' = text
  /\ lastOp' = Op("setInput")
  /\ UNCHANGED <<now, API_KEY, storageFull, apiResponse, parsed, sessions,
                 currentSessionId, localStorage, selectedFile, isLoading,
                 sends>>

(* file input onChange, and the X of the pending upload preview *)
SetSelectedFile(file) ==
  /\ UserEvent
  /\ selectedFile' = file
  /\ lastOp' = Op("setSelectedFile")
  /\ UNCHANGED <<now, API_KEY, storageFull, apiResponse, parsed, sessions,
                 currentSessionId, localStorage, input, isLoading, sends>>

(* the File handleReuseImage builds from a generated image *)
ReuseFile(img) ==
  [name |-> "edited-image.png", type |-> "image/png", content |-> img.data]

handleReuseImage(img) ==
  /\ UserEvent
  /\ selectedFile' = ReuseFile(img)
  /\ input' = ""
  /\ lastOp' = Op("reuseImage")
  /\ UNCHANGED <<now, API_KEY, storageFull, apiResponse, parsed, sessions,
                 currentSessionId, localStorage, isLoading, sends>>

handleAspectRatioChange(ratio) ==
  /\ UserEvent
  /\ LET upd == [i \in 1..Len(sessions) |->
                   [sessions[i] EXCEPT !.aspectRatio = ratio]]
     IN \E t \in Clock(now) :
          /\ now' = t
          /\ Commit(updateCurrentSession(sessions, currentSessionId, upd, t),
                    currentSessionId, t)
  /\ lastOp' = Op("aspectRatio")
  /\ UNCHANGED <<API_KEY, storageFull, apiResponse, parsed, input, selectedFile,
                 isLoading, sends>>

handleNumberOfImagesChange(num) ==
  /\ UserEvent
  /\ LET upd == [i \in 1..Len(sessions) |->
                   [sessions[i] EXCEPT !.numberOfImages = num]]
     IN \E t \in Clock(now) :
          /\ now' = t
          /\ Commit(updateCurrentSession(sessions, currentSessionId, upd, t),
                    currentSessionId, t)
  /\ lastOp' = Op("numberOfImages")
  /\ UNCHANGED <<API_KEY, storageFull, apiResponse, parsed, input, selectedFile,
                 isLoading, sends>>

(* the X of the reference preview, rendered when
   !selectedFile && activeReferenceImage *)
handleClearReference ==
  /\ UserEvent
  /\ selectedFile = NoFile
  /\ activeSession.activeReferenceImage # NoImage
  /\ LET upd == [i \in 1..Len(sessions) |->
                   [sessions[i] EXCEPT !.activeReferenceImage = NoImage]]
     IN \E t \in Clock(now) :
          /\ now' = t
          /\ Commit(updateCurrentSession(sessions, currentSessionId, upd, t),
                    currentSessionId, t)
  /\ lastOp' = Op("clearReference")
  /\ UNCHANGED <<API_KEY, storageFull, apiResponse, parsed, input, selectedFile,
                 isLoading, sends>>

Next ==
  \/ CreateSession
  \/ \E i \in 1..Len(sessions) : DeleteSession(i)
  \/ \E i \in 1..Len(sessions) : SelectSession(i)
  \/ HandleSend
  \/ \E k \in 1..Len(sends) : ReadDone(k)
  \/ \E k \in 1..Len(sends) : ReadFailed(k)
  \/ \E k \in 1..Len(sends) : \E i \in 1..Len(sends[k].calls) :
       \E outcome \in CallOutcomes : CallReturn(k, i, outcome)
  \/ \E text \in Prompts : SetInput(text)
  \/ \E file \in Files \cup {NoFile} : SetSelectedFile(file)
  \/ \E img \in Range(activeSession.gallery) : handleReuseImage(img)
  \/ \E ratio \in AspectRatios : handleAspectRatioChange(ratio)
  \/ \E num \in ImageCounts : handleNumberOfImagesChange(num)
  \/ handleClearReference

Spec == Init /\ [][Next]_vars

(* a pending file read or network call completes *)
Completion ==
  \/ \E k \in 1..Len(sends) : ReadFailed(k)
  \/ \E k \in 1..Len(sends) : \E i \in 1..Len(sends[k].calls) :
       \E outcome \in CallOutcomes : CallReturn(k, i, outcome)
  \/ \E k \in 1..Len(sends) : ReadDone(k)

(* every pending file read and network call eventually completes *)
FairSpec == Spec /\ WF_vars(Completion)

(* --------------------- visits that start from a store ------------------ *)
(* What a visit may find in localStorage.  Nothing; the collection an
   earlier visit wrote: one new session, or a new session and one that
   has had a send of chair.jpg answered by one image, with a text that
   has quotes, a backslash and a line break;
   or a text that is not a collection of sessions: the empty text, a
   text cut off in the middle, the empty array, null. *)
SavedReference ==
  [mimeType |-> "image/jpeg",
   data |-> fileToBase64([name |-> "chair.jpg", type |-> "image/jpeg",
                          content |-> "JPG1"])]

SavedCtx ==
  [sid |-> "0", currentInput |-> "a \"red\" chair\\stool\nat night",
   currentFile |-> [name |-> "chair.jpg", type |-> "image/jpeg",
                    content |-> "JPG1"],
   currentAspectRatio |-> "3:4", currentNumImages |-> 1,
   attachmentForRequest |-> SavedReference,
   messageAttachments |-> <<SavedReference>>]

SavedSession ==
  AppendAi(AppendUser([createNewSession(0) EXCEPT
                         !.activeReferenceImage = SavedReference],
                      SavedCtx, 0),
           SavedCtx, <<"PNGA">>, 0)

SavedCollections ==
  {<<createNewSession(0)>>, <<createNewSession(1), SavedSession>>}

TruncatedText == SubSeq(JSONStringify(<<createNewSession(0)>>), 1, 20)

CorruptTexts == {<<>>, TruncatedText, <<"[", "]">>, <<"null">>}

SavedSessionsItems ==
  {NoItem} \cup {Text(c) : c \in CorruptTexts}
    \cup {Stringified(c) : c \in SavedCollections}

SavedIdItems == {NoId, Id("0"), Id("7")}

(* App has mounted over such a store, which may be out of quota; the
   build of these visits has its key *)
StoreInit ==
  /\ now = 1
  /\ API_KEY = "key"
  /\ storageFull \in BOOLEAN
  /\ \E a \in SavedSessionsItems : \E b \in SavedIdItems :
       LET store == [aidesigner_sessions |-> a, aidesigner_current_id |-> b]
           m == Mount(store, SavedSessions(store), storageFull, 1)
       IN /\ sessions = m.sessions
          /\ currentSessionId = m.currentSessionId
          /\ localStorage = m.localStorage
          /\ lastOp = Op(IF m.threw THEN "crash" ELSE "init")
  /\ input = ""
  /\ selectedFile = NoFile
  /\ isLoading = FALSE
  /\ sends = <<>>
  /\ apiResponse = Response(<<>>)
  /\ parsed = Rejected("")
  /\ userActions = MaxUserActions - MaxStoreActions

(* The page is reloaded: whatever was in flight is gone and App mounts
   again over the store. *)
Reload ==
  /\ UserEvent
  /\ LET saved == SavedSessions(localStorage)
     IN \E t \in Clock(now) :
          /\ now' = t
          /\ LET m == Mount(localStorage, saved, storageFull, t)
             IN /\ sessions' = m.sessions
                /\ currentSessionId' = m.currentSessionId
                /\ localStorage' = m.localStorage
                /\ lastOp' = Op(IF m.threw THEN "crash" ELSE "reload")
  /\ input' = ""
  /\ selectedFile' = NoFile
  /\ isLoading' = FALSE
  /\ sends' = <<>>
  /\ UNCHANGED <<API_KEY, storageFull, apiResponse, parsed>>

(* the page with its tree unmounted has no control to operate *)
Mounted == lastOp.op # "crash"

StoreNext ==
  \/ Mounted /\ CreateSession
  \/ Mounted /\ \E i \in 1..Len(sessions) : DeleteSession(i)
  \/ Mounted /\ \E i \in 1..Len(sessions) : SelectSession(i)
  \/ Mounted /\ HandleSend
  \/ Mounted /\ \E k \in 1..Len(sends) : ReadDone(k)
  \/ Mounted /\ \E k \in 1..Len(sends) : ReadFailed(k)
  \/ Mounted /\ \E k \in 1..Len(sends) : \E i \in 1..Len(sends[k].calls) :
       \E outcome \in CallOutcomes : CallReturn(k, i, outcome)
  \/ Mounted /\ \E text \in Prompts : SetInput(text)
  \/ Mounted /\ \E file \in Files \cup {NoFile} : SetSelectedFile(file)
  \/ Mounted /\ \E img \in Range(activeSession.gallery) : handleReuseImage(img)
  \/ Mounted /\ \E ratio \in AspectRatios : handleAspectRatioChange(ratio)
  \/ Mounted /\ \E num \in ImageCounts : handleNumberOfImagesChange(num)
  \/ Mounted /\ handleClearReference
  \/ Reload

StoreSpec == StoreInit /\ [][StoreNext]_vars

(* ----------------------- response parsing alone ------------------------ *)
(* Texts of 200 and of 201 characters, around the preview bound. *)
Text200 ==
  "I cannot create that image. I cannot create that image. I cannot create that image. I cannot create that image. I cannot create that image. I cannot create that image. I cannot create that image. I ca"
Text201 == Text200 \o "!"

(* the parts a response may have and the responses built from them *)
PartKinds ==
  {ImagePart("PNGA"), TextPart(RefusalText), TextPart(Text200),
   TextPart(Text201), TextPart("")}
PartLists ==
  {<<>>} \cup {<<p>> : p \in PartKinds}
         \cup {<<p, q>> : p \in PartKinds, q \in PartKinds}
FinishReasons == {"", "STOP", "SAFETY"}
Responses ==
  {Response(<<>>)}
  \cup {Response(<<Candidate(FALSE, <<>>, reason)>>) : reason \in FinishReasons}
  \cup {Response(<<Candidate(TRUE, parts, reason)>>) :
          parts \in PartLists, reason \in FinishReasons}

(* generateContent has answered one call *)
ParseStart(r) ==
  /\ lastOp.op \in {"init", "parse"}
  /\ apiResponse' = r
  /\ lastOp' = Op("response")
  /\ UNCHANGED <<now, API_KEY, sessions, currentSessionId, input, selectedFile,
                 isLoading, sends, localStorage, storageFull, parsed,
                 userActions>>

(* generateSingleImage reads the response *)
ParseStep ==
  /\ lastOp.op = "response"
  /\ parsed' = ParseResponse(apiResponse)
  /\ lastOp' = Op("parse")
  /\ UNCHANGED <<now, API_KEY, sessions, currentSessionId, input, selectedFile,
                 isLoading, sends, localStorage, storageFull, apiResponse,
                 userActions>>

ParseNext ==
  \/ \E r \in Responses : ParseStart(r)
  \/ ParseStep

ParseSpec == Init /\ [][ParseNext]_vars

(* ============================== claims ================================= *)
SessionsWithId(id) == {i \in 1..Len(sessions) : sessions[i].id = id}

(* s contains sub *)
Contains(s, sub) ==
  \E i \in 1..(Len(s) - Len(sub) + 1) : SubSeq(s, i, i + Len(sub) - 1) = sub

(* old is a prefix of new *)
IsPrefix(old, new) ==
  Len(old) <= Len(new) /\ SubSeq(new, 1, Len(old)) = old

(* the fields createNewSession gives a session, apart from id and time *)
IsDefaultSession(s) ==
  /\ s.title = ""
  /\ s.messages = <<>>
  /\ s.gallery = <<>>
  /\ s.activeReferenceImage = NoImage
  /\ s.aspectRatio = "3:4"
  /\ s.numberOfImages = 1

(* C1: in every reachable state currentSessionId is the id of exactly one
   session of the collection.  Violated: two sessions created while
   Date.now() returns the same value share their id (see C18). *)
C1_CurrentIsExactlyOneSession ==
  Cardinality(SessionsWithId(currentSessionId)) = 1

(* What does hold of C1: currentSessionId never dangles. *)
CurrentSessionExists == SessionsWithId(currentSessionId) # {}

(* C2: the collection is never empty, and a delete whose filter leaves no
   session yields exactly one fresh default session. *)
C2_NeverEmpty ==
  /\ Len(sessions) >= 1
  /\ (lastOp.op = "delete" /\ lastOp.left = 0) =>
       /\ Len(sessions) = 1
       /\ IsDefaultSession(sessions[1])
       /\ sessions[1].id = ToString(now)
       /\ sessions[1].lastModified = now

(* C2 witness: a delete has removed every session of the collection and
   the fresh session is in place. *)
C2_Witness ==
  /\ lastOp.op = "delete"
  /\ lastOp.left = 0
  /\ Len(sessions) = 1
  /\ IsDefaultSession(sessions[1])

(* C3: at most one send is in flight, and a send attempted while
   isLoading is set is ignored: no message, no request, nothing queued,
   input, pending file and sessions unchanged. *)
C3_SendWhileLoadingIgnored ==
  /\ [](Len(sends) <= 1 /\ (isLoading <=> Len(sends) = 1))
  /\ [][(isLoading /\ lastOp'.op = "handleSend") =>
          /\ lastOp'.outcome = "ignored"
          /\ lastOp'.issued = 0
          /\ UNCHANGED <<sessions, currentSessionId, localStorage, input,
                         selectedFile, isLoading, sends>>]_vars

(* C3 witness: with a send in flight and text typed, a send was attempted
   and ignored. *)
C3_Witness ==
  /\ lastOp.op = "handleSend"
  /\ lastOp.outcome = "ignored"
  /\ isLoading
  /\ Len(sends) = 1
  /\ Truthy(Trim(input))

(* C4: provided pending reads and calls complete, a send that has set
   isLoading is followed by a state where isLoading is false again. *)
C4_SendReturnsToIdle == isLoading ~> ~isLoading

(* C4 witness: a send with an upload went through the read and the
   generation and the application is idle again. *)
C4_Witness ==
  /\ lastOp.outcome = "succeeded"
  /\ lastOp.ctx.currentFile # NoFile
  /\ ~isLoading

(* C5: with a credential, generateOrEditImage starts exactly n calls,
   returns exactly n results when all n are fulfilled, and fails with no
   results when one is rejected. *)
C5_AllOrNothing ==
  LET n == lastOp.ctx.currentNumImages
  IN /\ (/\ Truthy(API_KEY)
         /\ lastOp.op \in {"handleSend", "readDone"}
         /\ lastOp.outcome \notin {"ignored", "reading"}) =>
          /\ lastOp.outcome = "generating"
          /\ lastOp.issued = n
          /\ \E k \in 1..Len(sends) :
               /\ sends[k].ctx = lastOp.ctx
               /\ Len(sends[k].calls) = n
               /\ \A i \in 1..n : sends[k].calls[i].status = "pending"
     /\ lastOp.op = "callReturn" =>
          /\ Len(lastOp.calls) = n
          /\ IF \E i \in 1..n : lastOp.calls[i].status = "rejected"
             THEN lastOp.outcome = "failed" /\ lastOp.results = <<>>
             ELSE IF \A i \in 1..n : lastOp.calls[i].status = "fulfilled"
             THEN /\ lastOp.outcome = "succeeded"
                  /\ Len(lastOp.results) = n
                  /\ \A i \in 1..n : lastOp.results[i] = lastOp.calls[i].data
             ELSE lastOp.outcome = "generating" /\ lastOp.results = <<>>

(* C5 witness: of two calls one was fulfilled and then the other was
   rejected, and the operation failed with no results. *)
C5_Witness ==
  /\ lastOp.op = "callReturn"
  /\ lastOp.outcome = "failed"
  /\ Len(lastOp.calls) = 2
  /\ \E i \in 1..2 : lastOp.calls[i].status = "fulfilled"
  /\ \E i \in 1..2 : lastOp.calls[i].status = "rejected"

(* C6: when the generation of a send succeeds with n results, the step
   appends to the sending session exactly one AI message with exactly
   those n images, in order, and a text naming the aspect ratio captured
   at send start, and appends the same images to the end of its gallery. *)
C6_SuccessAppends ==
  [][lastOp'.outcome = "succeeded" =>
       LET ctx == lastOp'.ctx
           res == lastOp'.results
       IN /\ SessionsWithId(ctx.sid) # {}
          /\ Len(sessions') = Len(sessions)
          /\ \A i \in 1..Len(sessions) :
               IF sessions[i].id = ctx.sid
               THEN LET old == sessions[i].messages
                        new == sessions'[i].messages
                        m == new[Len(new)]
                    IN /\ Len(new) = Len(old) + 1
                       /\ IsPrefix(old, new)
                       /\ m.sender = "ai"
                       /\ Len(m.generatedImages) = Len(res)
                       /\ \A j \in 1..Len(res) : m.generatedImages[j].data = res[j]
                       /\ Contains(m.text, "(" \o ctx.currentAspectRatio \o ")")
                       /\ sessions'[i].gallery =
                            sessions[i].gallery \o m.generatedImages
               ELSE sessions'[i] = sessions[i]]_vars

(* C6 witness: a send for two images has succeeded with two different
   images after the session's aspect ratio was changed in flight. *)
C6_Witness ==
  /\ lastOp.outcome = "succeeded"
  /\ Len(lastOp.results) = 2
  /\ lastOp.results[1] # lastOp.results[2]
  /\ activeSession.aspectRatio # lastOp.ctx.currentAspectRatio
  /\ Len(activeSession.gallery) = 2

(* C7: when the image request of a send fails, the step appends to the
   sending session exactly one AI message, whose text embeds the error's
   message or, without one, "Unknown error occurred."; it has no images,
   the gallery is unchanged, no call is started and the send is over. *)
C7_FailureAppendsError ==
  [][lastOp'.outcome = "failed" =>
       LET ctx == lastOp'.ctx
           msg == lastOp'.error
       IN /\ SessionsWithId(ctx.sid) # {}
          /\ Len(sessions') = Len(sessions)
          /\ \A i \in 1..Len(sessions) :
               IF sessions[i].id = ctx.sid
               THEN LET old == sessions[i].messages
                        new == sessions'[i].messages
                        m == new[Len(new)]
                    IN /\ IsPrefix(old, new)
                       /\ Cardinality({j \in (Len(old) + 1)..Len(new) :
                                         new[j].sender = "ai"}) = 1
                       /\ m.sender = "ai"
                       /\ Contains(m.text, IF Truthy(msg) THEN msg
                                           ELSE "Unknown error occurred.")
                       /\ m.generatedImages = <<>>
                       /\ sessions'[i].gallery = sessions[i].gallery
               ELSE sessions'[i] = sessions[i]
          /\ lastOp'.issued = 0
          /\ \A k \in 1..Len(sends') : sends'[k].ctx # ctx
          /\ ~isLoading']_vars

(* C7 witness: a call was rejected with an error that has no message and
   the session ends with the fallback text. *)
C7_Witness ==
  /\ lastOp.outcome = "failed"
  /\ lastOp.op = "callReturn"
  /\ lastOp.error = ""
  /\ Contains(activeSession.messages[Len(activeSession.messages)].text,
              "Unknown error occurred.")

(* C8: a send whose file read fails records nothing: neither the task
   that starts the read nor the one that handles its failure changes a
   session or starts a call, and the failure clears isLoading. *)
C8_ReadFailureAborts ==
  [][/\ (lastOp'.op = "handleSend" /\ lastOp'.outcome = "reading") =>
          /\ sessions' = sessions
          /\ lastOp'.issued = 0
          /\ sends'[Len(sends')].calls = <<>>
     /\ lastOp'.op = "readFailed" =>
          /\ sessions' = sessions
          /\ lastOp'.issued = 0
          /\ \A k \in 1..Len(sends') : sends'[k].ctx # lastOp'.ctx
          /\ ~isLoading']_vars

(* C8 witness: the read of a first upload has failed; the session has no
   message and no reference image and the application is idle. *)
C8_Witness ==
  /\ lastOp.op = "readFailed"
  /\ ~isLoading
  /\ sends = <<>>
  /\ activeSession.messages = <<>>
  /\ activeSession.activeReferenceImage = NoImage

(* C9: no step changes a non-empty title; a title changes only when the
   session gets its first message, a user message. *)
C9_TitleFirstWriteWins ==
  [][Len(sessions') = Len(sessions) =>
       \A i \in 1..Len(sessions) :
         (sessions'[i].id = sessions[i].id
            /\ sessions'[i].title # sessions[i].title) =>
           /\ sessions[i].title = ""
           /\ sessions[i].messages = <<>>
           /\ sessions'[i].messages[1].sender = "user"]_vars

(* C9 witness: a session titled by its first prompt has received a second
   user message, a bare upload, and kept its title. *)
C9_Witness ==
  \E i \in 1..Len(sessions) :
    /\ Len(sessions[i].messages) >= 3
    /\ sessions[i].messages[3].sender = "user"
    /\ sessions[i].messages[3].text = ""
    /\ sessions[i].messages[3].attachments # <<>>
    /\ sessions[i].title = "a red chair"

(* C10: a send of a newly selected image with empty text, in a session
   whose title is empty, appends a user message whose attachments are
   exactly that image, makes it the reference image and sets the title
   to "Image Upload". *)
C10_UploadWithEmptyText ==
  [][(lastOp'.op = "readDone" /\ lastOp'.ctx.currentInput = "") =>
       LET ctx == lastOp'.ctx
           image == [mimeType |-> ctx.currentFile.type,
                     data |-> ctx.currentFile.content]
       IN /\ SessionsWithId(ctx.sid) # {}
          /\ \A i \in 1..Len(sessions) :
               (sessions[i].id = ctx.sid /\ sessions[i].title = "") =>
                 LET um == sessions'[i].messages[Len(sessions[i].messages) + 1]
                 IN /\ um.sender = "user"
                    /\ um.text = ""
                    /\ um.attachments = <<image>>
                    /\ sessions'[i].activeReferenceImage = image
                    /\ sessions'[i].title = "Image Upload"]_vars

(* C10 witness: the upload of chair.jpg with empty text has been read. *)
C10_Witness ==
  /\ lastOp.op = "readDone"
  /\ lastOp.ctx.currentInput = ""
  /\ activeSession.title = "Image Upload"
  /\ activeSession.activeReferenceImage =
       [mimeType |-> "image/jpeg", data |-> "JPG1"]

(* C11: a send with no newly selected file, in a session that has a
   reference image, puts that image in every request it starts, appends
   a user message with no attachments and leaves the session's reference
   image as it was. *)
C11_ReferenceCarriedSilently ==
  [][(/\ lastOp'.op = "handleSend"
      /\ lastOp'.outcome \in {"generating", "failed"}
      /\ activeSession.activeReferenceImage # NoImage) =>
       LET ctx == lastOp'.ctx
           ref == activeSession.activeReferenceImage
       IN /\ ctx.currentFile = NoFile
          /\ lastOp'.outcome = "generating" =>
               LET send == sends'[Len(sends')]
               IN /\ send.ctx = ctx
                  /\ Len(send.calls) = ctx.currentNumImages
                  /\ \A j \in 1..Len(send.calls) :
                       send.calls[j].request.inlineData = ref
          /\ \A i \in 1..Len(sessions) :
               sessions[i].id = ctx.sid =>
                 LET um == sessions'[i].messages[Len(sessions[i].messages) + 1]
                 IN /\ um.sender = "user"
                    /\ um.text = ctx.currentInput
                    /\ um.attachments = <<>>
                    /\ sessions'[i].activeReferenceImage =
                         sessions[i].activeReferenceImage]_vars

(* C11 witness: a text-only send is generating with the uploaded
   chair.jpg in its request, and its user message shows no attachment. *)
C11_Witness ==
  /\ lastOp.op = "handleSend"
  /\ lastOp.outcome = "generating"
  /\ lastOp.ctx.currentInput = "a red chair"
  /\ Len(sends) = 1
  /\ sends[1].calls[1].request.inlineData =
       [mimeType |-> "image/jpeg", data |-> "JPG1"]
  /\ activeSession.activeReferenceImage =
       [mimeType |-> "image/jpeg", data |-> "JPG1"]
  /\ activeSession.messages[Len(activeSession.messages)].attachments = <<>>

(* C12: a send of empty text with no newly selected file, in a session
   that has a reference image, starts a generation request carrying that
   image and records a user message with no attachments.  Violated: with
   no text and no file handleSend returns at its guard. *)
C12_EmptyTextUsesReference ==
  [][(/\ lastOp'.op = "handleSend"
      /\ input = ""
      /\ selectedFile = NoFile
      /\ ~isLoading
      /\ Truthy(API_KEY)
      /\ activeSession.activeReferenceImage # NoImage) =>
       /\ lastOp'.outcome = "generating"
       /\ Len(sends') = 1
       /\ \A j \in 1..Len(sends'[1].calls) :
            sends'[1].calls[j].request.inlineData =
              activeSession.activeReferenceImage
       /\ \A i \in 1..Len(sessions) :
            sessions[i].id = currentSessionId =>
              /\ Len(sessions'[i].messages) = Len(sessions[i].messages) + 1
              /\ sessions'[i].messages[Len(sessions'[i].messages)].attachments
                   = <<>>]_vars

(* the text of the parts, concatenated in order *)
RECURSIVE PartsText(_)
PartsText(parts) ==
  IF parts = <<>> THEN "" ELSE Head(parts).text \o PartsText(Tail(parts))

(* the response has parts, none with image data, and some text *)
TextOnlyResponse(r) ==
  /\ Len(r.candidates) > 0
  /\ r.candidates[1].hasParts
  /\ \A j \in 1..Len(r.candidates[1].parts) : r.candidates[1].parts[j].data = ""
  /\ PartsText(r.candidates[1].parts) # ""

(* the bounded preview of a text: the text, or its first 200 characters
   and an ellipsis *)
Preview(text) ==
  IF Len(text) <= 200 THEN text ELSE SubSeq(text, 1, 200) \o "..."

(* C13 as the spec states it: for a response with no image part and
   some text the call fails and the error's message is the preview of
   the concatenated text.  Violated: the message wraps the preview in
   Model response: "...". *)
C13_MessageIsText ==
  (lastOp.op = "parse" /\ TextOnlyResponse(apiResponse)) =>
    /\ ~parsed.ok
    /\ parsed.message = Preview(PartsText(apiResponse.candidates[1].parts))

(* C13 as the code has it: the call fails and the error's message is
   Model response: "<preview>", the preview being the concatenated text
   when it has at most 200 characters and else its first 200 characters
   followed by "...". *)
C13_MessageQuotesText ==
  (lastOp.op = "parse" /\ TextOnlyResponse(apiResponse)) =>
    /\ ~parsed.ok
    /\ parsed.data = ""
    /\ parsed.message =
         "Model response: \""
           \o Preview(PartsText(apiResponse.candidates[1].parts)) \o "\""

(* C13 witness: two text parts, 200 characters and a refusal, have been
   read and the message ends with the ellipsis and the closing quote. *)
C13_Witness ==
  /\ lastOp.op = "parse"
  /\ apiResponse.candidates # <<>>
  /\ apiResponse.candidates[1].parts = <<TextPart(Text200), TextPart(RefusalText)>>
  /\ apiResponse.candidates[1].finishReason = "SAFETY"
  /\ Len(parsed.message) = 221
  /\ SubSeq(parsed.message, 218, 221) = "...\""

(* a step that mounts App again over the store *)
ReloadStep == lastOp'.op \in {"reload", "crash"}

(* the state a fallback leaves: one fresh default session, made now, current *)
OneFreshSession(sess, cur, t) ==
  /\ Len(sess) = 1
  /\ IsDefaultSession(sess[1])
  /\ sess[1].id = ToString(t)
  /\ sess[1].lastModified = t
  /\ cur = sess[1].id

(* The store holds a collection of sessions: what JSON.stringify wrote
   from the sessions state, which is never empty. *)
HoldsCollection(store) ==
  store.aidesigner_sessions.has /\ store.aidesigner_sessions.json

(* getItem returned null or "", or JSON.parse threw *)
NothingParsed(store) ==
  \/ ~store.aidesigner_sessions.has
  \/ GetItem(store.aidesigner_sessions) = <<>>
  \/ ~JSONParse(GetItem(store.aidesigner_sessions)).ok

(* C14: on startup, when the store holds no collection of sessions
   (absent, corrupt or unparsable) the collection in memory is one fresh
   default session, which is current; otherwise it is the stored
   collection.  Violated: the text null is taken as the sessions state
   and the first render throws. *)
C14_FallbackOrStoredCollection ==
  [][ReloadStep =>
       IF HoldsCollection(localStorage)
       THEN sessions' = localStorage.aidesigner_sessions.value
       ELSE OneFreshSession(sessions', currentSessionId', now')]_vars

(* What does hold of C14: the fallback is taken when nothing was parsed,
   and when the empty array was. *)
FallbackWhenNothingParsed ==
  [][(ReloadStep /\ (NothingParsed(localStorage)
                       \/ GetItem(localStorage.aidesigner_sessions) = <<"[", "]">>))
       => (lastOp'.op = "reload"
             /\ OneFreshSession(sessions', currentSessionId', now'))]_vars

(* C15: when no write fails, once the effects of a change have run both
   store entries hold what is in memory: the text of the collection and
   the current id. *)
C15_StoreFollowsMemory ==
  (Mounted /\ ~storageFull) =>
    /\ localStorage.aidesigner_sessions.has
    /\ GetItem(localStorage.aidesigner_sessions) = JSONStringify(sessions)
    /\ localStorage.aidesigner_current_id = Id(currentSessionId)

(* C15 witness: a send has been answered with an image and the store
   holds the two messages and the current id; it held neither entry
   when the visit began. *)
C15_Witness ==
  /\ ~storageFull
  /\ lastOp.outcome = "succeeded"
  /\ Len(sessions) = 1
  /\ Len(sessions[1].messages) = 2
  /\ Len(sessions[1].gallery) = 1
  /\ GetItem(localStorage.aidesigner_sessions) = JSONStringify(sessions)
  /\ localStorage.aidesigner_current_id.text = sessions[1].id

(* C16: a write the store rejects changes nothing but the store's being
   behind: the page stays mounted, the store keeps what it had, and
   creating, selecting and deleting sessions and the completion of sends
   act on the state in memory as they do when the write succeeds. *)
C16_WriteFailureSwallowed ==
  [][(storageFull /\ Mounted /\ ~ReloadStep) =>
       /\ localStorage' = localStorage
       /\ Mounted'
       /\ Len(sessions') >= 1
       /\ \E i \in 1..Len(sessions') : sessions'[i].id = currentSessionId'
       /\ lastOp'.op = "create" =>
            /\ Len(sessions') = Len(sessions) + 1
            /\ Tail(sessions') = sessions
            /\ IsDefaultSession(sessions'[1])
            /\ currentSessionId' = sessions'[1].id
       /\ lastOp'.op = "select" =>
            /\ sessions' = sessions
            /\ \E i \in 1..Len(sessions) : sessions[i].id = currentSessionId'
       /\ lastOp'.op = "delete" =>
            IF lastOp'.left = 0
            THEN Len(sessions') = 1 /\ IsDefaultSession(sessions'[1])
            ELSE /\ Len(sessions') = lastOp'.left
                 /\ \A i \in 1..Len(sessions') : sessions'[i].id # lastOp'.id
       /\ lastOp'.outcome = "generating" /\ lastOp'.op # "callReturn" =>
            \A i \in 1..Len(sessions) :
              sessions[i].id = lastOp'.ctx.sid =>
                /\ Len(sessions'[i].messages) = Len(sessions[i].messages) + 1
                /\ sessions'[i].messages[Len(sessions'[i].messages)].sender = "user"
       /\ lastOp'.outcome \in {"succeeded", "failed"} =>
            /\ ~isLoading'
            /\ \A i \in 1..Len(sessions) :
                 sessions[i].id = lastOp'.ctx.sid =>
                   /\ Len(sessions'[i].messages) = Len(sessions[i].messages) + 1
                   /\ sessions'[i].messages[Len(sessions'[i].messages)].sender = "ai"
                   /\ Len(sessions'[i].gallery) =
                        Len(sessions[i].gallery) + Len(lastOp'.results)]_vars

(* C16 witness: the store has rejected every write of the visit and
   still holds no entry, while a send has been answered in memory. *)
C16_Witness ==
  /\ storageFull
  /\ localStorage = EmptyStorage
  /\ lastOp.outcome = "succeeded"
  /\ Len(activeSession.messages) = 2
  /\ Len(activeSession.gallery) = 1
  /\ ~isLoading

(* C17: the collection JSON.stringify wrote to the store is the
   collection the next startup has in memory: the same sessions in the
   same order with the same values in every field; when the store
   accepts writes that is the collection the page had before it was
   reloaded, with the same current session. *)
C17_RoundTrip ==
  [][(ReloadStep /\ HoldsCollection(localStorage)) =>
       /\ lastOp'.op = "reload"
       /\ sessions' = localStorage.aidesigner_sessions.value
       /\ (Mounted /\ ~storageFull) =>
            /\ sessions' = sessions
            /\ currentSessionId' = currentSessionId]_vars

(* C17 witness: the page was reloaded after the reference image of a
   session was cleared; the session is back with its two messages, the
   quotes, backslash and line break of its text, its gallery image and
   the null reference. *)
C17_Witness ==
  /\ lastOp.op = "reload"
  /\ ~storageFull
  /\ Len(sessions) = 2
  /\ currentSessionId = sessions[2].id
  /\ Len(sessions[2].messages) = 2
  /\ sessions[2].messages[1].text = SavedCtx.currentInput
  /\ Contains(sessions[2].messages[2].text, "\"red\" chair\\stool\nat")
  /\ Len(sessions[2].messages[1].attachments) = 1
  /\ Len(sessions[2].gallery) = 1
  /\ sessions[2].activeReferenceImage = NoImage
  /\ sessions[2].lastModified > sessions[2].messages[2].timestamp

(* C18: no two sessions of the collection share an id.  Violated: the
   id is Date.now() as text, and two sessions made within the same
   millisecond get the same one. *)
C18_SessionIdsUnique ==
  \A i, j \in 1..Len(sessions) : i # j => sessions[i].id # sessions[j].id

(* session new continues session old: the same id, and the messages and
   the gallery of old are prefixes of those of new *)
Continues(old, new) ==
  /\ new.id = old.id
  /\ IsPrefix(old.messages, new.messages)
  /\ IsPrefix(old.gallery, new.gallery)

(* C19: messages and gallery entries are append-only.  A create puts a
   session before the others and leaves them as they are, a delete
   leaves the sessions it keeps as they are and in their order, and
   across every other step each session keeps its place and continues
   what it was: nothing is removed, reordered or modified. *)
C19_AppendOnly ==
  [][CASE lastOp'.op = "create" -> Tail(sessions') = sessions
       [] lastOp'.op = "delete" ->
            lastOp'.left > 0 =>
              sessions' = SelectSeq(sessions, LAMBDA s : s.id # lastOp'.id)
       [] OTHER ->
            /\ Len(sessions') = Len(sessions)
            /\ \A i \in 1..Len(sessions) : Continues(sessions[i], sessions'[i])]_vars

(* C19 witness: the second send of a session has been answered; the
   session has four messages and two gallery images. *)
C19_Witness ==
  /\ lastOp.outcome = "succeeded"
  /\ Len(sessions) = 1
  /\ Len(sessions[1].messages) = 4
  /\ Len(sessions[1].gallery) = 2
  /\ sessions[1].messages[1].sender = "user"
  /\ sessions[1].messages[2].sender = "ai"
  /\ sessions[1].messages[1].timestamp < sessions[1].messages[4].timestamp

(* C20: a delete of the current session makes the first of the sessions
   that remain current, or the fresh session when none remains; a delete
   of another session leaves the current id as it was. *)
C20_DeleteMovesCurrent ==
  [][lastOp'.op = "delete" =>
       IF lastOp'.id = currentSessionId
       THEN /\ currentSessionId' = sessions'[1].id
            /\ lastOp'.left = 0 =>
                 OneFreshSession(sessions', currentSessionId', now')
            /\ lastOp'.left > 0 =>
                 sessions'[1] =
                   sessions[CHOOSE i \in 1..Len(sessions) :
                              /\ sessions[i].id # lastOp'.id
                              /\ \A j \in 1..(i - 1) : sessions[j].id = lastOp'.id]
       ELSE /\ currentSessionId' = currentSessionId
            /\ lastOp'.left > 0]_vars

(* C20 witness: of three sessions the newest, which was current, has
   been deleted and the one after it is current. *)
C20_Witness ==
  /\ userActions = 3
  /\ lastOp.op = "delete"
  /\ lastOp.id = "2"
  /\ lastOp.left = 2
  /\ sessions[1].id = "1"
  /\ sessions[2].id = "0"
  /\ currentSessionId = "1"

(* C21: a create puts exactly one new session in front of the
   collection, with no messages, no gallery image, no reference image,
   aspect ratio "3:4" and image count 1, its id and its time read from
   the clock; the new session is the current one, the text input and the
   pending file are cleared, and the sessions there were follow it
   unchanged and in their order. *)
C21_CreateSession ==
  [][lastOp'.op = "create" =>
       /\ Len(sessions') = Len(sessions) + 1
       /\ IsDefaultSession(sessions'[1])
       /\ sessions'[1].id = ToString(now')
       /\ sessions'[1].lastModified = now'
       /\ currentSessionId' = sessions'[1].id
       /\ ActiveSessionOf(sessions', currentSessionId') = sessions'[1]
       /\ \A i \in 1..Len(sessions) : sessions'[i + 1] = sessions[i]
       /\ input' = ""
       /\ selectedFile' = NoFile
       /\ UNCHANGED <<isLoading, sends>>]_vars

(* C21 witness: a session that has had an answered send is second
   behind the new, current one. *)
C21_Witness ==
  /\ lastOp.op = "create"
  /\ Len(sessions) = 2
  /\ Len(sessions[1].messages) = 0
  /\ Len(sessions[2].messages) = 2
  /\ Len(sessions[2].gallery) = 1
  /\ currentSessionId = sessions[1].id
  /\ sessions[1].id # sessions[2].id
  /\ input = ""
  /\ selectedFile = NoFile

(* a step that goes through updateCurrentSession: a settings change, a
   clear of the reference, or a step of a send that writes *)
UpdateStep ==
  \/ lastOp'.op \in {"aspectRatio", "numberOfImages", "clearReference"}
  \/ lastOp'.op \in {"handleSend", "readDone"}
       /\ lastOp'.outcome \in {"generating", "failed"}
  \/ lastOp'.op = "callReturn" /\ lastOp'.outcome \in {"succeeded", "failed"}

(* the currentSessionId the closure of the step's updateCurrentSession holds *)
UpdatedId ==
  IF lastOp'.op \in {"aspectRatio", "numberOfImages", "clearReference"}
  THEN currentSessionId ELSE lastOp'.ctx.sid

(* C22: a step through updateCurrentSession transforms exactly one
   session, the current one, and stamps its lastModified; every other
   session, the length and the order of the collection stay.  Violated:
   the map transforms every session that has the current id, and two
   sessions can have it (C18). *)
C22_UpdatesExactlyTheCurrent ==
  [][UpdateStep =>
       /\ Len(sessions') = Len(sessions)
       /\ UpdatedId = currentSessionId
       /\ currentSessionId' = currentSessionId
       /\ LET cur == FirstIndex(sessions, currentSessionId)
          IN /\ sessions'[cur].lastModified = now'
             /\ sessions'[cur].id = sessions[cur].id
             /\ \A j \in 1..Len(sessions) :
                  j # cur => sessions'[j] = sessions[j]]_vars

(* What does hold of C22: the sessions that do not have the current id
   stay as they are and where they are, and every session that has it
   keeps its id and is stamped. *)
UpdatesSessionsWithCurrentId ==
  [][UpdateStep =>
       /\ Len(sessions') = Len(sessions)
       /\ UpdatedId = currentSessionId
       /\ currentSessionId' = currentSessionId
       /\ \A j \in 1..Len(sessions) :
            IF sessions[j].id = currentSessionId
            THEN /\ sessions'[j].lastModified = now'
                 /\ sessions'[j].id = sessions[j].id
            ELSE sessions'[j] = sessions[j]]_vars

(* the ImageAttachment handleSend builds from a file that was read *)
AttachmentOf(file) == [mimeType |-> file.type, data |-> fileToBase64(file)]

(* C23: the reference image of a session changes only when the read of
   a file sent from that session resolves, and then it is that file's
   image, or when the reference is cleared, and then it is none.  The
   completion of a generation, a settings change, a select, a reuse of an
   image, a create and a delete leave the reference image of every
   session that stays as it was. *)
C23_ReferenceChanges ==
  [][CASE lastOp'.op = "create" ->
            \A i \in 1..Len(sessions) :
              sessions'[i + 1].activeReferenceImage =
                sessions[i].activeReferenceImage
       [] lastOp'.op = "delete" ->
            lastOp'.left > 0 =>
              sessions' = SelectSeq(sessions, LAMBDA s : s.id # lastOp'.id)
       [] lastOp'.op = "readDone" ->
            /\ Len(sessions') = Len(sessions)
            /\ lastOp'.ctx.sid = currentSessionId
            /\ \A i \in 1..Len(sessions) :
                 sessions'[i].activeReferenceImage =
                   IF sessions[i].id = currentSessionId
                   THEN AttachmentOf(lastOp'.ctx.currentFile)
                   ELSE sessions[i].activeReferenceImage
       [] lastOp'.op = "clearReference" ->
            /\ Len(sessions') = Len(sessions)
            /\ \A i \in 1..Len(sessions) :
                 sessions'[i].activeReferenceImage =
                   IF sessions[i].id = currentSessionId
                   THEN NoImage
                   ELSE sessions[i].activeReferenceImage
       [] OTHER ->
            /\ Len(sessions') = Len(sessions)
            /\ \A i \in 1..Len(sessions) :
                 sessions'[i].activeReferenceImage =
                   sessions[i].activeReferenceImage]_vars

(* C23 witness: a send that carried chair.jpg has been answered with an
   image and the reference image of the session is still chair.jpg, not
   the image that came back. *)
C23_Witness ==
  /\ lastOp.op = "callReturn"
  /\ lastOp.outcome = "succeeded"
  /\ lastOp.ctx.currentFile \in Files
  /\ activeSession.activeReferenceImage = AttachmentOf(lastOp.ctx.currentFile)
  /\ Len(activeSession.gallery) = 1
  /\ activeSession.gallery[1].data # activeSession.activeReferenceImage.data

(* the response carries a part with inline image data *)
ImageInResponse(r) ==
  /\ Len(r.candidates) > 0
  /\ r.candidates[1].hasParts
  /\ \E j \in 1..Len(r.candidates[1].parts) : r.candidates[1].parts[j].data # ""

(* the response reports a finish reason other than STOP *)
AbnormalFinish(r) ==
  /\ Len(r.candidates) > 0
  /\ r.candidates[1].finishReason \notin {"", "STOP"}

(* C24 as stated: a response without an image that reports a finish
   reason other than STOP fails with the error naming that reason, and the
   generic error is given exactly when there is no image, no text and no
   such reason.  Violated: with text in the response the text error is
   thrown before the finish reason is looked at. *)
C24_ReasonNamed ==
  lastOp.op = "parse" =>
    /\ (~ImageInResponse(apiResponse) /\ AbnormalFinish(apiResponse)) =>
         /\ ~parsed.ok
         /\ parsed.message = "Generation stopped due to: "
                               \o apiResponse.candidates[1].finishReason
    /\ (~parsed.ok /\ parsed.message = "No image data found in response.") <=>
         /\ ~ImageInResponse(apiResponse)
         /\ ~TextOnlyResponse(apiResponse)
         /\ ~AbnormalFinish(apiResponse)

(* C24 as the code has it: a response without an image and without text
   that reports a finish reason other than STOP fails with the error naming
   that reason; a response without an image but with text fails with the
   text error whatever its finish reason; the generic error is given exactly
   when there is no image, no text and no such reason. *)
C24_ReasonNamedWithoutText ==
  lastOp.op = "parse" =>
    /\ ( /\ ~ImageInResponse(apiResponse)
         /\ ~TextOnlyResponse(apiResponse)
         /\ AbnormalFinish(apiResponse) ) =>
         /\ ~parsed.ok
         /\ parsed.data = ""
         /\ parsed.message = "Generation stopped due to: "
                               \o apiResponse.candidates[1].finishReason
    /\ TextOnlyResponse(apiResponse) =>
         /\ ~parsed.ok
         /\ parsed.message =
              ModelResponseError(PartsText(apiResponse.candidates[1].parts))
    /\ (~parsed.ok /\ parsed.message = "No image data found in response.") <=>
         /\ ~ImageInResponse(apiResponse)
         /\ ~TextOnlyResponse(apiResponse)
         /\ ~AbnormalFinish(apiResponse)

(* C24 witness: a response whose only part is an empty text, stopped for
   SAFETY, has been read and the error names SAFETY. *)
C24_Witness ==
  /\ lastOp.op = "parse"
  /\ apiResponse.candidates # <<>>
  /\ apiResponse.candidates[1].parts = <<TextPart("")>>
  /\ apiResponse.candidates[1].finishReason = "SAFETY"
  /\ ~parsed.ok
  /\ parsed.message = "Generation stopped due to: SAFETY"

(* C25: when a send's image request succeeds, the results handed to
   handleSend are the values of the calls in the order the calls were
   issued, whichever call settled last, and in every session written the
   i-th generated image of the new AI message and the i-th image added to
   the gallery carry the i-th result and the index i - 1. *)
C25_ResultsInIssueOrder ==
  [][lastOp'.outcome = "succeeded" =>
       LET calls == lastOp'.calls
           res == lastOp'.results
           n == Len(calls)
       IN /\ n = lastOp'.ctx.currentNumImages
          /\ lastOp'.settled \in 1..n
          /\ Len(res) = n
          /\ \A j \in 1..n : res[j] = calls[j].data
          /\ \A i \in 1..Len(sessions) :
               sessions[i].id = lastOp'.ctx.sid =>
                 LET m == sessions'[i].messages[Len(sessions'[i].messages)]
                     g == sessions'[i].gallery
                     g0 == Len(sessions[i].gallery)
                 IN /\ Len(m.generatedImages) = n
                    /\ Len(g) = g0 + n
                    /\ \A j \in 1..n :
                         /\ m.generatedImages[j].data = calls[j].data
                         /\ m.generatedImages[j].id =
                              ToString(now') \o "-" \o ToString(j - 1)
                         /\ g[g0 + j] = m.generatedImages[j]]_vars

(* C25 witness: a send for two images has succeeded, the first call
   settled last, the two values differ, and the message and the gallery
   have the first call's value first. *)
C25_Witness ==
  /\ lastOp.outcome = "succeeded"
  /\ Len(lastOp.calls) = 2
  /\ lastOp.settled = 1
  /\ lastOp.calls[1].data # lastOp.calls[2].data
  /\ lastOp.results = <<lastOp.calls[1].data, lastOp.calls[2].data>>
  /\ activeSession.gallery[1].data = lastOp.calls[1].data
  /\ activeSession.gallery[2].data = lastOp.calls[2].data

(* the messages alternate user, ai, user, ai, ... from a user message on *)
Alternates(messages) ==
  \A j \in 1..Len(messages) :
    messages[j].sender = (IF j % 2 = 1 THEN "user" ELSE "ai")

(* a send that has appended its user message to the sessions with this id
   is waiting for its images *)
InFlightFor(id) ==
  \E k \in 1..Len(sends) : sends[k].pc = "generating" /\ sends[k].ctx.sid = id

(* C26 as stated: in every state every session's messages alternate
   user, ai from a user message on, a session ends with a user message
   only while a send for it is in flight, and when no send is in flight
   every session has an even number of messages.  Violated: a reload of
   the page during a send mounts the stored session, which ends with the
   user message, with nothing in flight. *)
C26_MessagesAlternate ==
  \A i \in 1..Len(sessions) :
    /\ Alternates(sessions[i].messages)
    /\ Len(sessions[i].messages) % 2 = 1 => InFlightFor(sessions[i].id)
    /\ ~isLoading => Len(sessions[i].messages) % 2 = 0

(* One visit that the user may interrupt by reloading the page: the
   actions of the page, and the reload, which mounts App again over what
   the visit has stored so far. *)
ReloadNext ==
  \/ Next
  \/ Reload

ReloadSpec == Init /\ [][ReloadNext]_vars

(* What holds of the messages across reloads too: every session's first
   message is a user message and no AI message follows an AI message. *)
AiFollowsUser ==
  \A i \in 1..Len(sessions) :
    \A j \in 1..Len(sessions[i].messages) :
      sessions[i].messages[j].sender = "ai" =>
        j > 1 /\ sessions[i].messages[j - 1].sender = "user"

(* the generated images of the messages, one message after the other *)
RECURSIVE ImagesOf(_)
ImagesOf(messages) ==
  IF messages = <<>> THEN <<>>
  ELSE Head(messages).generatedImages \o ImagesOf(Tail(messages))

(* C27: in every state the gallery of every session is the generated
   images of its AI messages, message after message and in each message's
   order; user messages carry none.  So each place of the gallery is one
   place of one AI message of the same session, and the other way round. *)
C27_GalleryIsImagesOfMessages ==
  \A i \in 1..Len(sessions) :
    /\ sessions[i].gallery = ImagesOf(sessions[i].messages)
    /\ \A j \in 1..Len(sessions[i].messages) :
         sessions[i].messages[j].sender = "user" =>
           sessions[i].messages[j].generatedImages = <<>>

(* C27 witness: two sends of the current session have succeeded with
   different images; the gallery holds the first send's image and then the
   second's. *)
C27_Witness ==
  /\ Len(activeSession.messages) = 4
  /\ Len(activeSession.messages[2].generatedImages) = 1
  /\ Len(activeSession.messages[4].generatedImages) = 1
  /\ activeSession.messages[2].generatedImages[1].data
       # activeSession.messages[4].generatedImages[1].data
  /\ activeSession.gallery = <<activeSession.messages[2].generatedImages[1],
                               activeSession.messages[4].generatedImages[1]>>

(* the ids of the collection, in its order *)
IdsOf(sess) == [i \in 1..Len(sess) |-> sess[i].id]

(* C28: while a send is in flight no session is created, selected or
   deleted, and no step changes currentSessionId or the ids of the
   collection; when the send's image request settles, the AI message, with
   the images or with the error, is appended to the sessions that carry
   the id captured at send start, which is still the current id and whose
   last message is that send's user message, and every other session is
   left as it is. *)
C28_SendKeepsItsSession ==
  [][/\ isLoading =>
          /\ lastOp'.op \notin {"create", "select", "delete"}
          /\ currentSessionId' = currentSessionId
          /\ IdsOf(sessions') = IdsOf(sessions)
     /\ (lastOp'.op = "callReturn" /\ lastOp'.outcome \in {"succeeded", "failed"}) =>
          LET ctx == lastOp'.ctx
          IN /\ isLoading
             /\ ctx.sid = currentSessionId
             /\ \E i \in 1..Len(sessions) : sessions[i].id = ctx.sid
             /\ \A i \in 1..Len(sessions) :
                  IF sessions[i].id = ctx.sid
                  THEN LET old == sessions[i].messages
                           new == sessions'[i].messages
                       IN /\ old # <<>>
                          /\ old[Len(old)].sender = "user"
                          /\ old[Len(old)].text = ctx.currentInput
                          /\ old[Len(old)].attachments = ctx.messageAttachments
                          /\ new = Append(old, new[Len(new)])
                          /\ new[Len(new)].sender = "ai"
                  ELSE sessions'[i] = sessions[i]]_vars

(* C28 witness: with two sessions, the second one current, a send has
   finished: the second session has the user message and the AI message
   and the first has none. *)
C28_Witness ==
  /\ lastOp.op = "callReturn"
  /\ lastOp.outcome \in {"succeeded", "failed"}
  /\ Len(sessions) = 2
  /\ sessions[1].id # sessions[2].id
  /\ currentSessionId = sessions[2].id
  /\ lastOp.ctx.sid = sessions[2].id
  /\ Len(sessions[2].messages) = 2
  /\ sessions[2].messages[2].sender = "ai"
  /\ sessions[1].messages = <<>>

====
